---- MODULE Spec2Model ----
(***************************************************************************)
(* The offline-capable task store (zustand store `useTaskStore`) and the   *)
(* connectivity handlers of App, as a state machine.                       *)
(*                                                                         *)
(* Execution is single-threaded and cooperative: every action below is the *)
(* synchronous stretch of one handler between two awaits.  An async call   *)
(* that is suspended at an await is an entry of `procs`; the step that     *)
(* resumes it carries the outcome of the awaited remote call.              *)
(*                                                                         *)
(* Time: one clock tick is five minutes; instants (Date) are ticks.        *)
(***************************************************************************)
EXTENDS Integers, Sequences, FiniteSets, TLC

\* ---------------------------------------------------------------- bounds
MaxClock == 1     \* Date.now() reads 0..MaxClock
MaxOps == 2       \* store operations the user starts in one behaviour
MaxDrains == 2    \* drain runs the 'online' event starts in one behaviour
MaxProcs == 2     \* async calls suspended at the same time
MaxWork == 3      \* operations and drain runs together in one behaviour

\* ------------------------------------------------------------- constants
DayTicks == 24 * 12
PageSize == 25
NoDate == -1

FilterKeys == {"today", "upcoming", "all"}
CacheDurations == {"5min", "12h", "infinite"}

\* ------------------------------------------------------------------- ids
RecId(n) == [kind |-> "rec", n |-> n]
TempId(t) == [kind |-> "temp", n |-> t]
NoId == [kind |-> "null", n |-> 0]
IsTemp(id) == id.kind = "temp"

\* ----------------------------------------------------------------- tasks
\* { ...task, ...updates }
Merge(task, updates) ==
  [f \in (DOMAIN task) \cup (DOMAIN updates) |->
     IF f \in DOMAIN updates THEN updates[f] ELSE task[f]]

Ids(list) == {list[k].id : k \in 1..Len(list)}
HasTask(list, id) == id \in Ids(list)
\* state.tasks.find(t => t.id === id): the first match
FindTask(list, id) ==
  list[CHOOSE k \in 1..Len(list) :
         list[k].id = id /\ \A j \in 1..(k - 1) : list[j].id # id]
\* state.tasks.map(t => t.id === id ? updatedTask : t)
ReplaceTask(list, id, updatedTask) ==
  [k \in 1..Len(list) |-> IF list[k].id = id THEN updatedTask ELSE list[k]]
\* state.tasks.filter(t => t.id !== id)
RemoveTask(list, id) == SelectSeq(list, LAMBDA t : t.id # id)

\* date-fns addDays
AddDays(date, days) == date + days * DayTicks
\* date.toISOString().split('T')[0], read back by new Date('yyyy-mm-dd')
DayStart(date) == (date \div DayTicks) * DayTicks

\* the form's taskData (Omit<Task, 'id'>): due today, not repeating
NewTaskData(t) ==
  [title |-> "N", status |-> "To do", dueDate |-> DayStart(t),
   completedDate |-> NoDate, isRepeating |-> FALSE, repeatEveryDays |-> 0]

\* the `task` local of a call that holds none
NoTask ==
  [title |-> "", status |-> "To do", dueDate |-> 0,
   completedDate |-> NoDate, isRepeating |-> FALSE, repeatEveryDays |-> 0]

\* ---------------------------------------------------------------- remote
\* the records the Airtable table holds when the app is mounted
InitialRemote ==
  { [id |-> RecId(1), title |-> "A", status |-> "To do", dueDate |-> 0,
     completedDate |-> NoDate, isRepeating |-> FALSE, repeatEveryDays |-> 0],
    [id |-> RecId(2), title |-> "A", status |-> "To do", dueDate |-> DayTicks,
     completedDate |-> NoDate, isRepeating |-> TRUE, repeatEveryDays |-> 1] }

RemoteHas(rem, id) == \E r \in rem : r.id = id
RemoteGet(rem, id) == CHOOSE r \in rem : r.id = id

\* the fields syncTask sends, over the record the table holds (table.update
\* is a PATCH: a field that is not sent keeps the table's value)
SyncFields(task, held) ==
  [id |-> held.id,
   title |-> task.title,
   status |-> task.status,
   dueDate |-> DayStart(task.dueDate),
   completedDate |-> IF task.completedDate # NoDate
                       THEN DayStart(task.completedDate)
                       ELSE held.completedDate,
   isRepeating |-> task.isRepeating,
   repeatEveryDays |-> IF task.repeatEveryDays # 0
                         THEN task.repeatEveryDays
                         ELSE held.repeatEveryDays]

\* table.update(task.id, fields)
RemoteUpdate(rem, task) ==
  (rem \ {RemoteGet(rem, task.id)}) \cup {SyncFields(task, RemoteGet(rem, task.id))}

\* table.destroy(taskId)
RemoteDelete(rem, id) == {r \in rem : r.id # id}

\* table.create(fields): createTask sends no completed date
RemoteCreate(rem, id, taskData) ==
  rem \cup { [id |-> id,
              title |-> taskData.title,
              status |-> taskData.status,
              dueDate |-> DayStart(taskData.dueDate),
              completedDate |-> NoDate,
              isRepeating |-> taskData.isRepeating,
              repeatEveryDays |-> taskData.repeatEveryDays] }

\* a 'today' filter that takes the days two days away as well
MatchesInclusive(filterType, r, t) ==
  CASE filterType = "upcoming" ->
         /\ r.dueDate >= AddDays(DayStart(t), -1)
         /\ r.dueDate <= AddDays(DayStart(t), 7)
         /\ r.status # "Done"
    [] filterType = "today" ->
         /\ r.dueDate >= AddDays(DayStart(t), -2)
         /\ r.dueDate <= AddDays(DayStart(t), 2)
         /\ r.status # "Done"
    [] OTHER -> TRUE
\* filterByFormula of loadTasks, evaluated by the table at instant t
MatchesFilter(filterType, r, t) ==
  CASE filterType = "upcoming" ->
         /\ r.dueDate >= AddDays(DayStart(t), -1)
         /\ r.dueDate <= AddDays(DayStart(t), 7)
         /\ r.status # "Done"
    [] filterType = "today" ->
         /\ r.dueDate > AddDays(DayStart(t), -2)
         /\ r.dueDate < AddDays(DayStart(t), 2)
         /\ r.status # "Done"
    [] OTHER -> TRUE

\* sort: 'To Do Date' ascending (every record has the same Importance);
\* records of one date in id order
RECURSIVE SortByDate(_)
SortByDate(set) ==
  IF set = {} THEN <<>>
  ELSE LET first == CHOOSE r \in set :
                      \A o \in set :
                         \/ r.dueDate < o.dueDate
                         \/ r.dueDate = o.dueDate /\ r.id.n <= o.id.n
       IN <<first>> \o SortByDate(set \ {first})

\* records.slice(0, pageSize)
FirstPage(list) ==
  SubSeq(list, 1, IF Len(list) < PageSize THEN Len(list) ELSE PageSize)

\* loadTasks({ filterType }).tasks
LoadTasks(rem, filterType, t) ==
  FirstPage(SortByDate({r \in rem : MatchesFilter(filterType, r, t)}))

\* ----------------------------------------------------------------- cache
NoEntry == [present |-> FALSE, tasks |-> <<>>, timestamp |-> 0]
\* an entry that is stamped but holds no list
StampOnly(list, t) == [present |-> TRUE, tasks |-> <<>>, timestamp |-> t]
CacheEntry(list, t) == [present |-> TRUE, tasks |-> list, timestamp |-> t]

\* getCacheDuration, in ticks ("infinite" is handled by IsExpired)
CacheDuration(setting) ==
  CASE setting = "5min" -> 1
    [] setting = "12h" -> 12 * 12
    [] OTHER -> 6

\* an entry that is never taken for expired
NeverExpired(entry, setting, t) == FALSE
\* an unbounded duration taken for the default one
UnboundedAsDefault(entry, setting, t) ==
  t - entry.timestamp > CacheDuration(setting)
\* Date.now() - cached.timestamp > getCacheDuration()
IsExpired(entry, setting, t) ==
  IF setting = "infinite" THEN FALSE
  ELSE t - entry.timestamp > CacheDuration(setting)

\* --------------------------------------------------------- pending queue
\* [...state.pendingChanges].sort((a, b) => a.timestamp - b.timestamp):
\* a stable sort
InsertByTimestamp(sorted, c) ==
  LET before == SelectSeq(sorted, LAMBDA x : x.timestamp <= c.timestamp)
      after == SelectSeq(sorted, LAMBDA x : x.timestamp > c.timestamp)
  IN before \o <<c>> \o after
\* a replay that takes the queue in the order it is held
HeldOrder(queue) == queue
RECURSIVE SortByTimestamp(_)
SortByTimestamp(queue) ==
  IF queue = <<>> THEN <<>>
  ELSE InsertByTimestamp(SortByTimestamp(SubSeq(queue, 1, Len(queue) - 1)),
                         queue[Len(queue)])

\* a queue that takes a new change at its head
Prepend(queue, change) == <<change>> \o queue
\* pendingChanges: [...state.pendingChanges, change]
Enqueue(queue, change) == Append(queue, change)

\* ------------------------------------------------------------------ state
VARIABLES
  tasks,            \* store: the visible task list
  selectedTaskId,   \* store: the selected task, or NoId
  pendingChanges,   \* store: the queue of unconfirmed local mutations
  cache,            \* store: filter key -> cache entry
  currentFilter,    \* store: the active filter
  cacheDuration,    \* settings store: the configured TTL
  online,           \* navigator.onLine
  now,              \* Date.now(), as last read
  remote,           \* the records the Airtable table holds
  nextRec,          \* the number of the next record id the table issues
  procs,            \* the async calls suspended at an await
  isSyncing,        \* App: the syncing indicator
  opCount,          \* store operations the user started so far
  drainCount,       \* drain runs started so far
  applied,          \* history: change serial -> successful remote replays
  deletedOffline,   \* history: ids deleted by deleteTask while disconnected
  ev                \* history: what the last step did

vars == <<tasks, selectedTaskId, pendingChanges, cache, currentFilter,
          cacheDuration, online, now, remote, nextRec, procs, isSyncing,
          opCount, drainCount, applied, deletedOffline, ev>>

\* an await-suspended call: `op` the store operation, `pc` the await it is
\* at ("load": loadTasks, "call": createTask / syncTask / deleteTask,
\* "drain": the call for changes[i] in syncPendingChanges), `n` its number,
\* and the locals that are live across the await; history: `req` orders the
\* loadTasks calls in flight by the time they were made, `stale` says that
\* the list of a loadTasks call made later for the same filter has been
\* stored since
Idle ==
  [op |-> "idle", pc |-> "idle", n |-> 0, id |-> NoId, task |-> NoTask,
   filter |-> "today", today |-> 0, stateTasks |-> <<>>,
   statePending |-> <<>>, changes |-> <<>>, i |-> 0, failedChanges |-> <<>>,
   startedOnline |-> FALSE, req |-> 0, stale |-> FALSE]

\* the `req` of a loadTasks call that is made now: after every one in flight
NextReq ==
  LET inFlight == {procs[q].req : q \in {r \in 1..MaxProcs : procs[r].pc = "load"}}
  IN IF inFlight = {} THEN 1
     ELSE 1 + CHOOSE m \in inFlight : \A o \in inFlight : o <= m
\* the suspended calls when the loadTasks call of p has returned and its list
\* has been stored
LoadStored(p) ==
  [q \in 1..MaxProcs |->
     IF q = p THEN Idle
     ELSE IF /\ procs[q].pc = "load"
             /\ procs[q].filter = procs[p].filter
             /\ procs[q].req < procs[p].req
       THEN [procs[q] EXCEPT !.stale = TRUE]
       ELSE procs[q]]

HasFree == \E p \in 1..MaxProcs : procs[p].op = "idle"
FreeSlot ==
  CHOOSE p \in 1..MaxProcs :
    procs[p].op = "idle" /\ \A q \in 1..(p - 1) : procs[q].op # "idle"
CanStart == opCount < MaxOps /\ opCount + drainCount < MaxWork
CanDrain == drainCount < MaxDrains /\ opCount + drainCount < MaxWork

\* the messages of the errors the store and the Airtable service throw
NoCacheError == "No cached data available offline"
OfflineRetryError == "You are offline. Please try again when online."
AirtableError == "Airtable operation failed"
OfflineError ==
  "You are offline. Changes will be saved locally and synced when online."
TaskOperationError == "Task operation failed"

\* handleAirtableError: the message a failed remote call throws
HandleAirtableError(onLine) ==
  IF ~onLine THEN OfflineRetryError ELSE AirtableError

\* handleStoreError(error): the message the store throws to its caller
HandleStoreError(message, onLine) ==
  IF ~onLine THEN OfflineError
  ELSE IF message = AirtableError THEN message
  ELSE TaskOperationError

\* what a step did: the operation `op` (with argument `id`) it belongs
\* to, the remote call that returned in it (`done`, on record `rid`, `ok`, for
\* queue entry `serial`), the remote call it left in flight (`issued`), and
\* how the operation ended in it (`outcome`: "ok" returned, "error" threw,
\* "none" still running); for a refresh that ended `filter` is its filter
\* key, for an error `cause` is the message first thrown and `message` the
\* one the caller gets; for getCachedTasks `ok` says that a list was
\* returned and `result` is the list
Event(op, id, done, rid, ok, serial, issued, outcome) ==
  [op |-> op, id |-> id, done |-> done, rid |-> rid, ok |-> ok,
   serial |-> serial, issued |-> issued, outcome |-> outcome,
   filter |-> "none", cause |-> "none", message |-> "none",
   result |-> <<>>]
\* the event e of a step in which the operation threw
Thrown(e, cause, onLine) ==
  [e EXCEPT !.outcome = "error", !.cause = cause,
            !.message = HandleStoreError(cause, onLine)]
EnvEvent(what) == Event(what, NoId, "none", NoId, FALSE, 0, "none", "none")

\* the store of a session in which TaskList's mount effect,
\* refreshTasks('today'), has returned
Init ==
  /\ tasks = LoadTasks(InitialRemote, "today", 0)
  /\ selectedTaskId = NoId
  /\ pendingChanges = <<>>
  /\ cache = [k \in FilterKeys |->
                IF k = "today"
                  THEN CacheEntry(LoadTasks(InitialRemote, "today", 0), 0)
                  ELSE NoEntry]
  /\ currentFilter = "today"
  /\ cacheDuration = "12h"
  /\ online = TRUE
  /\ now = 0
  /\ remote = InitialRemote
  /\ nextRec = 3
  /\ procs = [p \in 1..MaxProcs |-> Idle]
  /\ isSyncing = FALSE
  /\ opCount = 0
  /\ drainCount = 0
  /\ applied = [s \in 1..MaxOps |-> 0]
  /\ deletedOffline = {}
  /\ ev = EnvEvent("init")

\* ------------------------------------------------------------ environment
\* Date.now() / new Date(): the wall clock is read; it is not monotonic (it
\* can be set back between two readings)
ReadClock == now' \in 0..MaxClock

\* window 'offline' event: handleOffline
HandleOffline ==
  /\ online
  /\ online' = FALSE
  /\ ev' = EnvEvent("handleOffline")
  /\ UNCHANGED <<tasks, selectedTaskId, pendingChanges, cache, currentFilter,
                 cacheDuration, now, remote, nextRec, procs, isSyncing,
                 opCount, drainCount, applied, deletedOffline>>

\* setSelectedTaskId(id), from a row of the visible list or closing the detail
SetSelectedTaskId ==
  /\ CanStart
  /\ opCount' = opCount + 1
  /\ \E id \in Ids(tasks) \cup {NoId} :
       /\ id # selectedTaskId
       /\ selectedTaskId' = id
  /\ ev' = EnvEvent("setSelectedTaskId")
  /\ UNCHANGED <<tasks, pendingChanges, cache, currentFilter, cacheDuration,
                 online, now, remote, nextRec, procs, isSyncing, drainCount,
                 applied, deletedOffline>>

\* ------------------------------------------------------------ getCachedTasks
\* getCachedTasks(filterType) !== null, with Date.now() reading t
CacheHit(filterType, t) ==
  /\ cache[filterType].present
  /\ ~IsExpired(cache[filterType], cacheDuration, t)
\* a cache that returns an empty list on a hit
NoTasks(filterType) == <<>>
\* a cache that returns the snapshot of the filter on display
ActiveFilterTasks(filterType) == cache[currentFilter].tasks
\* the list getCachedTasks(filterType) returns on a hit
GetCachedTasks(filterType) == cache[filterType].tasks

\* a queue entry; `serial` is the number of the operation that made it (the
\* identity of the JS object, not a field the sort or the replay reads)
UpdateChange(id, data, t, serial) ==
  [taskId |-> id, type |-> "update", data |-> data, timestamp |-> t,
   serial |-> serial]
DeleteChange(id, t, serial) ==
  [taskId |-> id, type |-> "delete", timestamp |-> t, serial |-> serial]

\* the arguments the user's operations are called with
FilterInputs == {"today", "all"}
UpdateInputs == {[title |-> "B", isRepeating |-> TRUE]}
StatusInputs == {"Done"}
DelayInputs == {1}

\* ------------------------------------------------------------ refreshTasks
\* refreshTasks(filterType) while offline: the cached list is served and
\* stamped again, or 'No cached data available offline' is thrown.  `op` is
\* the operation that called it, `e` the part of the event the caller knows
RefreshOfflineAt(filterType, e, t) ==
  /\ now' = t
  /\ IF CacheHit(filterType, t)
       THEN /\ tasks' = GetCachedTasks(filterType)
            /\ cache' = [cache EXCEPT ![filterType] =
                           CacheEntry(GetCachedTasks(filterType), t)]
            /\ ev' = [e EXCEPT !.outcome = "ok", !.filter = filterType]
       ELSE /\ ev' = [Thrown(e, NoCacheError, FALSE)
                       EXCEPT !.filter = filterType]
            /\ UNCHANGED <<tasks, cache>>
RefreshOffline(filterType, e) ==
  \E t \in 0..MaxClock : RefreshOfflineAt(filterType, e, t)

\* refreshTasks(filterType) up to its first await, as operation number n:
\* offline it serves the cache or throws, online it calls loadTasks (whose
\* filter dates are those of the day of the call)
RefreshStart(filterType, n) ==
  IF online
    THEN /\ HasFree
         /\ procs' = [procs EXCEPT ![FreeSlot] =
                        [Idle EXCEPT !.op = "refreshTasks", !.pc = "load",
                                     !.n = n, !.filter = filterType,
                                     !.today = DayStart(now),
                                     !.startedOnline = TRUE,
                                     !.req = NextReq]]
         /\ ev' = Event("refreshTasks", NoId, "none", NoId, FALSE, 0,
                        "list", "none")
         /\ UNCHANGED <<tasks, cache, now>>
    ELSE /\ RefreshOffline(filterType,
                           Event("refreshTasks", NoId, "none", NoId, FALSE, 0,
                                 "none", "none"))
         /\ UNCHANGED procs

\* TaskList's effect: refreshTasks(filterType), for the filter on display
RefreshTasks ==
  /\ CanStart
  /\ opCount' = opCount + 1
  /\ RefreshStart(currentFilter, opCount + 1)
  /\ UNCHANGED <<selectedTaskId, pendingChanges, currentFilter, cacheDuration,
                 online, remote, nextRec, isSyncing, drainCount, applied,
                 deletedOffline>>

\* TaskList.handleFilterChange: setCurrentFilter(newFilter), then
\* refreshTasks(newFilter)
HandleFilterChange ==
  /\ CanStart
  /\ opCount' = opCount + 1
  /\ \E newFilter \in FilterInputs \ {currentFilter} :
       /\ currentFilter' = newFilter
       /\ RefreshStart(newFilter, opCount + 1)
  /\ UNCHANGED <<selectedTaskId, pendingChanges, cacheDuration, online,
                 remote, nextRec, isSyncing, drainCount, applied,
                 deletedOffline>>

\* ------------------------------------------------------------- mutations
\* updateTask / updateTaskStatus / delayTask from `const updatedTask` on:
\* online the remote syncTask is awaited, offline the list is patched and
\* the change is queued with timestamp t
MutateStart(op, id, updatedTask, data, t) ==
  /\ CanStart
  /\ opCount' = opCount + 1
  /\ now' = t
  /\ IF online
       THEN /\ HasFree
            /\ procs' = [procs EXCEPT ![FreeSlot] =
                           [Idle EXCEPT !.op = op, !.pc = "call",
                                        !.n = opCount + 1, !.id = id,
                                        !.task = updatedTask,
                                        !.filter = currentFilter,
                                        !.startedOnline = TRUE]]
            /\ ev' = Event(op, id, "none", NoId, FALSE, 0, "update", "none")
            /\ UNCHANGED <<tasks, pendingChanges>>
       ELSE /\ tasks' = ReplaceTask(tasks, id, updatedTask)
            /\ pendingChanges' =
                 Enqueue(pendingChanges, UpdateChange(id, data, t, opCount + 1))
            /\ ev' = Event(op, id, "none", NoId, FALSE, 0, "none", "ok")
            /\ UNCHANGED procs
  /\ UNCHANGED <<selectedTaskId, cache, currentFilter, cacheDuration, online,
                 remote, nextRec, isSyncing, drainCount, applied,
                 deletedOffline>>

\* the clock readings a mutation can make: any when it reads the clock,
\* none (the last reading stays) when it does not
Readings(reads) == IF reads THEN 0..MaxClock ELSE {now}

\* updateTask(id, updates); `if (!task) return` leaves the state as it is
UpdateTask ==
  \E id \in Ids(tasks), updates \in UpdateInputs, t \in Readings(~online) :
    MutateStart("updateTask", id, Merge(FindTask(tasks, id), updates),
                updates, t)

\* a status change that stamps no completion
StatusOnly(task, status, t) == [status |-> status]

\* a completion that has no branch for repeating tasks
CompleteAlways(task, status, t) ==
  IF status = "Done"
    THEN [status |-> status, completedDate |-> t]
    ELSE [status |-> status]

\* the updates updateTaskStatus makes to `task` at instant t
StatusUpdates(task, status, t) ==
  IF status = "Done" /\ task.isRepeating /\ task.repeatEveryDays # 0
    THEN [dueDate |-> AddDays(t, task.repeatEveryDays), status |-> "To do"]
    ELSE IF status = "Done"
      THEN [status |-> status, completedDate |-> t]
      ELSE [status |-> status]

\* updateTaskStatus(id, status)
UpdateTaskStatus ==
  \E id \in Ids(tasks), status \in StatusInputs :
    \E t \in Readings(~online \/ status = "Done") :
      LET task == FindTask(tasks, id)
          updates == StatusUpdates(task, status, t)
      IN MutateStart("updateTaskStatus", id, Merge(task, updates), updates, t)

\* a delay counted from the instant t of the call
DelayFromNow(task, days, t) == [dueDate |-> AddDays(t, days)]

\* the updates delayTask makes to `task`: addDays(task.dueDate, days)
DelayUpdates(task, days, t) == [dueDate |-> AddDays(task.dueDate, days)]

\* delayTask(id, days)
DelayTask ==
  \E id \in Ids(tasks), days \in DelayInputs, t \in Readings(~online) :
    LET task == FindTask(tasks, id)
        updates == DelayUpdates(task, days, t)
    IN MutateStart("delayTask", id, Merge(task, updates), updates, t)

\* deleteTask(id)
DeleteTask ==
  \E id \in Ids(tasks) :
    /\ CanStart
    /\ opCount' = opCount + 1
    /\ IF online
         THEN /\ HasFree
              /\ procs' = [procs EXCEPT ![FreeSlot] =
                             [Idle EXCEPT !.op = "deleteTask", !.pc = "call",
                                          !.n = opCount + 1, !.id = id,
                                          !.filter = currentFilter,
                                          !.startedOnline = TRUE]]
              /\ ev' = Event("deleteTask", id, "none", NoId, FALSE, 0,
                             "delete", "none")
              /\ UNCHANGED <<tasks, selectedTaskId, pendingChanges, now,
                             deletedOffline>>
         ELSE /\ ReadClock
              /\ tasks' = RemoveTask(tasks, id)
              /\ selectedTaskId' = NoId
              /\ pendingChanges' =
                   Enqueue(pendingChanges, DeleteChange(id, now', opCount + 1))
              /\ deletedOffline' = deletedOffline \cup {id}
              /\ ev' = Event("deleteTask", id, "none", NoId, FALSE, 0,
                             "none", "ok")
              /\ UNCHANGED procs
    /\ UNCHANGED <<cache, currentFilter, cacheDuration, online, remote,
                   nextRec, isSyncing, drainCount, applied>>

\* addTask(taskData) up to `await createTask(taskData)`: the remote create
\* is attempted whatever navigator.onLine says
AddTask ==
  /\ CanStart
  /\ HasFree
  /\ opCount' = opCount + 1
  /\ procs' = [procs EXCEPT ![FreeSlot] =
                 [Idle EXCEPT !.op = "addTask", !.pc = "call",
                              !.n = opCount + 1, !.task = NewTaskData(now),
                              !.startedOnline = online]]
  /\ ev' = Event("addTask", NoId, "none", NoId, FALSE, 0, "create", "none")
  /\ UNCHANGED <<tasks, selectedTaskId, pendingChanges, cache, currentFilter,
                 cacheDuration, online, now, remote, nextRec, isSyncing,
                 drainCount, applied, deletedOffline>>

\* the awaited createTask / syncTask / deleteTask of an online mutation
\* returned: the list is patched where the code patches it, and
\* refreshTasks(currentFilter) is entered, which calls loadTasks (the client
\* is online when a call returns)
CallReturned(p) ==
  LET pr == procs[p]
      next == [pr EXCEPT !.pc = "load", !.today = DayStart(now),
                         !.req = NextReq]
  IN
  CASE pr.op = "addTask" ->
         /\ remote' = RemoteCreate(remote, RecId(nextRec), pr.task)
         /\ nextRec' = nextRec + 1
         /\ tasks' = Append(tasks, Merge(pr.task, [id |-> RecId(nextRec)]))
         /\ procs' = [procs EXCEPT ![p] =
                        [next EXCEPT !.id = RecId(nextRec),
                                     !.filter = currentFilter]]
         /\ ev' = Event(pr.op, pr.id, "create", RecId(nextRec), TRUE, 0,
                        "list", "none")
         /\ UNCHANGED selectedTaskId
    [] pr.op = "deleteTask" ->
         /\ remote' = RemoteDelete(remote, pr.id)
         /\ tasks' = RemoveTask(tasks, pr.id)
         /\ selectedTaskId' = NoId
         /\ procs' = [procs EXCEPT ![p] = next]
         /\ ev' = Event(pr.op, pr.id, "delete", pr.id, TRUE, 0, "list", "none")
         /\ UNCHANGED nextRec
    [] OTHER ->
         /\ remote' = RemoteUpdate(remote, pr.task)
         /\ procs' = [procs EXCEPT ![p] = next]
         /\ ev' = Event(pr.op, pr.id, "update", pr.id, TRUE, 0, "list", "none")
         /\ UNCHANGED <<tasks, selectedTaskId, nextRec>>

\* the remote call a suspended mutation awaits
CallKind(op) ==
  CASE op = "addTask" -> "create"
    [] op = "deleteTask" -> "delete"
    [] OTHER -> "update"

\* a catch block that shows the temporary task and queues nothing
AddTaskUnqueued(p, t) ==
  /\ tasks' = Append(tasks, Merge(procs[p].task, [id |-> TempId(t)]))
  /\ pendingChanges' = pendingChanges

\* addTask's catch block while offline: a temporary id is minted from the
\* clock reading t and the full record is queued as an update
AddTaskOffline(p, t) ==
  /\ tasks' = Append(tasks, Merge(procs[p].task, [id |-> TempId(t)]))
  /\ pendingChanges' =
       Enqueue(pendingChanges,
               UpdateChange(TempId(t), procs[p].task, t, procs[p].n))

\* the awaited call (`done`) threw: handleStoreError rethrows to the caller,
\* except that addTask queues the task when it finds the client offline
CallThrew(p, done) ==
  LET pr == procs[p] IN
  /\ procs' = [procs EXCEPT ![p] = Idle]
  /\ IF pr.op = "addTask" /\ ~online
       THEN /\ ReadClock
            /\ AddTaskOffline(p, now')
            /\ ev' = Event(pr.op, TempId(now'), done, pr.id, FALSE, 0,
                           "none", "ok")
       ELSE /\ ev' = Thrown(Event(pr.op, pr.id, done, pr.id, FALSE, 0,
                                  "none", "none"),
                            HandleAirtableError(online), online)
            /\ UNCHANGED <<tasks, pendingChanges, now>>

\* a mutation suspended at its remote call resumes
ResumeCall ==
  \E p \in 1..MaxProcs, ok \in BOOLEAN :
    /\ procs[p].pc = "call"
    /\ ok => /\ online
             /\ procs[p].op # "addTask" => RemoteHas(remote, procs[p].id)
    /\ IF ok
         THEN /\ CallReturned(p)
              /\ UNCHANGED <<pendingChanges, now>>
         ELSE /\ CallThrew(p, CallKind(procs[p].op))
              /\ UNCHANGED <<remote, nextRec, selectedTaskId>>
    /\ UNCHANGED <<cache, currentFilter, cacheDuration, online, isSyncing,
                   opCount, drainCount, applied, deletedOffline>>

\* a call suspended at loadTasks resumes: refreshTasks itself, or the
\* refreshTasks that ends a mutation or a drain
ResumeLoad ==
  \E p \in 1..MaxProcs, ok \in BOOLEAN :
    LET pr == procs[p]
        loaded == LoadTasks(remote, pr.filter, pr.today)
    IN
    /\ pr.pc = "load"
    /\ ok => online
    /\ IF ok
         THEN /\ ReadClock
              /\ tasks' = loaded
              /\ cache' = [cache EXCEPT ![pr.filter] = CacheEntry(loaded, now')]
              /\ procs' = LoadStored(p)
              /\ ev' = [Event(pr.op, pr.id, "list", NoId, TRUE, 0,
                               "none", "ok")
                         EXCEPT !.filter = pr.filter]
              /\ UNCHANGED pendingChanges
         ELSE /\ CallThrew(p, "list")
              /\ UNCHANGED cache
    /\ isSyncing' = IF pr.op = "handleOnline" THEN FALSE ELSE isSyncing
    /\ UNCHANGED <<selectedTaskId, currentFilter, cacheDuration, online,
                   remote, nextRec, opCount, drainCount, applied,
                   deletedOffline>>

\* the instants a Date of the model holds
MaxDate == MaxClock + (MaxOps + 2) * DayTicks
\* v instanceof Date (and not the string JSON has made of one)
IsDate(v) == ToString(v) \in {ToString(d) : d \in 0..MaxDate}

\* syncTask(task) gets as far as table.update: task.dueDate.toISOString()
\* and, for a completedDate that is set, task.completedDate.toISOString()
\* are calls of a Date's method; on a string they throw a TypeError, which
\* handleAirtableError throws on
Replayable(task) ==
  /\ IsDate(task.dueDate)
  /\ \/ ToString(task.completedDate) = ToString(NoDate)
     \/ IsDate(task.completedDate)

\* -------------------------------------------------------- syncPendingChanges
\* whether the loop body issues a remote call for change c
NeedsCall(c, stateTasks) ==
  c.type = "delete" \/ HasTask(stateTasks, c.taskId)

\* the index of the first change from `from` on that the loop awaits a call
\* for (the loop runs through the others without suspending)
NextCall(changes, from, stateTasks) ==
  LET calls == {j \in from..Len(changes) : NeedsCall(changes[j], stateTasks)}
  IN IF calls = {} THEN Len(changes) + 1
     ELSE CHOOSE j \in calls : \A k \in calls : j <= k

\* a run that goes on whatever the queue holds
NeverEmpty(queue) == FALSE
\* state.pendingChanges.length === 0, on which syncPendingChanges returns
QueueEmpty(queue) == queue = <<>>

\* the task syncTask is called with for an update change
ReplayTask(c, stateTasks) == Merge(FindTask(stateTasks, c.taskId), c.data)

\* window 'online' event: handleOnline, which awaits syncPendingChanges;
\* `counted` says whether the run is one of the MaxDrains runs of a behaviour
OnlineEvent(counted) ==
  /\ online' = TRUE
  /\ IF QueueEmpty(pendingChanges)
       THEN /\ isSyncing' = FALSE
            /\ ev' = Event("handleOnline", NoId, "none", NoId, FALSE, 0,
                           "none", "ok")
            /\ UNCHANGED <<pendingChanges, procs, drainCount>>
       ELSE LET changes == SortByTimestamp(pendingChanges)
                first == NextCall(changes, 1, tasks)
                run == [Idle EXCEPT !.op = "handleOnline",
                                    !.filter = currentFilter,
                                    !.today = DayStart(now),
                                    !.stateTasks = tasks,
                                    !.statePending = pendingChanges,
                                    !.changes = changes, !.i = first,
                                    !.startedOnline = TRUE]
            IN /\ HasFree
               /\ counted => CanDrain
               /\ drainCount' = IF counted THEN drainCount + 1 ELSE drainCount
               /\ isSyncing' = TRUE
               /\ IF first <= Len(changes)
                    THEN /\ procs' = [procs EXCEPT ![FreeSlot] =
                                        [run EXCEPT !.pc = "drain"]]
                         /\ ev' = Event("handleOnline", NoId, "none", NoId,
                                        FALSE, 0, changes[first].type, "none")
                         /\ UNCHANGED pendingChanges
                    ELSE /\ pendingChanges' = <<>>
                         /\ procs' = [procs EXCEPT ![FreeSlot] =
                                        [run EXCEPT !.pc = "load",
                                                    !.req = NextReq]]
                         /\ ev' = Event("handleOnline", NoId, "none", NoId,
                                        FALSE, 0, "list", "none")
  /\ UNCHANGED <<tasks, selectedTaskId, cache, currentFilter, cacheDuration,
                 now, remote, nextRec, opCount, applied, deletedOffline>>

HandleOnline == ~online /\ OnlineEvent(TRUE)

\* a drain run suspended at the call for changes[i] resumes: the loop runs on
\* to its next call, or ends with set({ pendingChanges: failedChanges }) and
\* refreshTasks(state.currentFilter)
ResumeDrain ==
  \E p \in 1..MaxProcs, ok \in BOOLEAN :
    LET pr == procs[p]
        c == pr.changes[pr.i]
        failed == IF ok THEN pr.failedChanges ELSE Append(pr.failedChanges, c)
        next == NextCall(pr.changes, pr.i + 1, pr.stateTasks)
        after == [pr EXCEPT !.i = next, !.failedChanges = failed,
                            !.today = DayStart(now)]
        e == Event(pr.op, NoId, c.type, c.taskId, ok, c.serial, "none", "none")
    IN
    /\ pr.pc = "drain"
    /\ ok => /\ online /\ RemoteHas(remote, c.taskId)
             /\ c.type = "update" =>
                  Replayable(ReplayTask(c, pr.stateTasks))
    /\ remote' = IF ~ok THEN remote
                 ELSE IF c.type = "update"
                   THEN RemoteUpdate(remote, ReplayTask(c, pr.stateTasks))
                   ELSE RemoteDelete(remote, c.taskId)
    /\ applied' = IF ok THEN [applied EXCEPT ![c.serial] = @ + 1] ELSE applied
    /\ IF next <= Len(pr.changes)
         THEN /\ procs' = [procs EXCEPT ![p] = after]
              /\ ev' = [e EXCEPT !.issued = pr.changes[next].type]
              /\ UNCHANGED <<tasks, cache, pendingChanges, isSyncing, now>>
         ELSE /\ pendingChanges' = failed
              /\ IF online
                   THEN /\ procs' = [procs EXCEPT ![p] =
                                       [after EXCEPT !.pc = "load",
                                                     !.req = NextReq]]
                        /\ ev' = [e EXCEPT !.issued = "list"]
                        /\ UNCHANGED <<tasks, cache, isSyncing, now>>
                   ELSE /\ procs' = [procs EXCEPT ![p] = Idle]
                        /\ isSyncing' = FALSE
                        /\ RefreshOffline(pr.filter, e)
    /\ UNCHANGED <<selectedTaskId, currentFilter, cacheDuration, online,
                   nextRec, opCount, drainCount, deletedOffline>>

\* ------------------------------------------------------------ specification
Next ==
  \/ HandleOffline
  \/ HandleOnline
  \/ SetSelectedTaskId
  \/ RefreshTasks
  \/ HandleFilterChange
  \/ AddTask
  \/ UpdateTask
  \/ UpdateTaskStatus
  \/ DelayTask
  \/ DeleteTask
  \/ ResumeCall
  \/ ResumeLoad
  \/ ResumeDrain

Spec == Init /\ [][Next]_vars

\* ------------------------------------------- the cache of an offline session
\* the instants the clock is read at: around the 5-minute, the 30-minute and
\* the 12-hour duration after a snapshot of instant 0 or 1
CacheInstants == {0, 1, 2, 6, 7, 144, 145}

\* the store of a disconnected session, for any configured cache duration,
\* holding the 'today' snapshot of a refresh at instant 0 or 1
InitCache ==
  /\ tasks = LoadTasks(InitialRemote, "today", 0)
  /\ selectedTaskId = NoId
  /\ pendingChanges = <<>>
  /\ \E t \in {0, 1} :
       cache = [k \in FilterKeys |->
                  IF k = "today"
                    THEN CacheEntry(LoadTasks(InitialRemote, "today", 0), t)
                    ELSE NoEntry]
  /\ currentFilter = "today"
  /\ cacheDuration \in CacheDurations
  /\ online = FALSE
  /\ now = 1
  /\ remote = InitialRemote
  /\ nextRec = 3
  /\ procs = [p \in 1..MaxProcs |-> Idle]
  /\ isSyncing = FALSE
  /\ opCount = 0
  /\ drainCount = 0
  /\ applied = [s \in 1..MaxOps |-> 0]
  /\ deletedOffline = {}
  /\ ev = EnvEvent("init")

\* getCachedTasks(filterType), called when the clock reads t
CallGetCachedTasks ==
  \E filterType \in FilterKeys, t \in CacheInstants :
    /\ now' = t
    /\ ev' = [EnvEvent("getCachedTasks")
               EXCEPT !.filter = filterType,
                      !.ok = CacheHit(filterType, t),
                      !.result = IF CacheHit(filterType, t)
                                   THEN GetCachedTasks(filterType)
                                   ELSE <<>>]
    /\ UNCHANGED <<tasks, selectedTaskId, pendingChanges, cache,
                   currentFilter, cacheDuration, online, remote, nextRec,
                   procs, isSyncing, opCount, drainCount, applied,
                   deletedOffline>>

\* refreshTasks(filterType) of the disconnected session, when the clock
\* reads t
RefreshCached ==
  \E filterType \in FilterKeys, t \in CacheInstants :
    /\ ~online
    /\ RefreshOfflineAt(filterType,
                        Event("refreshTasks", NoId, "none", NoId, FALSE, 0,
                              "none", "none"), t)
    /\ UNCHANGED <<selectedTaskId, pendingChanges, currentFilter,
                   cacheDuration, online, remote, nextRec, procs, isSyncing,
                   opCount, drainCount, applied, deletedOffline>>

NextCache ==
  \/ CallGetCachedTasks
  \/ RefreshCached

SpecCache == InitCache /\ [][NextCache]_vars

\* ------------------------------------------------------- repeated drains
\* the remote call that returned in this step to a run of handleOnline was
\* made by a connected client, and it failed only if it was for a record the
\* table does not hold
Accepted ==
  ev'.op = "handleOnline" /\ ev'.done # "none" =>
    /\ online
    /\ ~ev'.ok => ev'.done # "list" /\ ~RemoteHas(remote, ev'.rid)

\* the 'offline' event when no call is awaited: the client stays connected
\* for as long as a run lasts
HandleOfflineIdle ==
  /\ \A p \in 1..MaxProcs : procs[p] = Idle
  /\ HandleOffline
\* the 'online' event, any number of times
HandleOnlineAgain == ~online /\ OnlineEvent(FALSE)
ResumeDrainAccepted == ResumeDrain /\ Accepted
ResumeLoadAccepted == ResumeLoad /\ Accepted

\* a session of tasks added, updated and deleted in which connectivity comes
\* and goes for ever
NextRetry ==
  \/ HandleOfflineIdle
  \/ HandleOnlineAgain
  \/ AddTask
  \/ UpdateTask
  \/ DeleteTask
  \/ ResumeCall
  \/ ResumeDrainAccepted
  \/ ResumeLoadAccepted

\* every awaited call returns, and the connectivity events keep coming
SpecRetry ==
  /\ Init
  /\ [][NextRetry]_vars
  /\ WF_vars(ResumeCall)
  /\ WF_vars(ResumeDrainAccepted)
  /\ WF_vars(ResumeLoadAccepted)
  /\ WF_vars(HandleOfflineIdle)
  /\ WF_vars(HandleOnlineAgain)

\* ------------------------------------------------- persist and rehydrate
\* a serialization that keeps the calendar day only
DateOnly(date) == [day |-> date \div DayTicks, time |-> 0]
\* date.toISOString(): 'yyyy-mm-ddThh:mm:ss.sssZ', the day and the time of
\* day in UTC
ToISOString(date) == [day |-> date \div DayTicks, time |-> date % DayTicks]
\* new Date(isoString)
NewDate(iso) == iso.day * DayTicks + iso.time

\* partialize: a task as it is written to the storage (an undefined
\* completedDate is left out by JSON.stringify)
StoredTask(task) ==
  [task EXCEPT !.dueDate = ToISOString(task.dueDate),
               !.completedDate = IF task.completedDate = NoDate
                                   THEN [day |-> NoDate, time |-> 0]
                                   ELSE ToISOString(task.completedDate)]
\* onRehydrateStorage: a stored task as it is put back into the store
RehydratedTask(stored) ==
  [stored EXCEPT !.dueDate = NewDate(stored.dueDate),
                 !.completedDate = IF stored.completedDate.day = NoDate
                                     THEN NoDate
                                     ELSE NewDate(stored.completedDate)]
StoredTasks(list) == [j \in DOMAIN list |-> StoredTask(list[j])]
RehydratedTasks(list) == [j \in DOMAIN list |-> RehydratedTask(list[j])]

\* JSON.stringify of a pending change: a Date of the payload is written by
\* its toJSON, which is toISOString, and nothing turns it back into a Date
StoredChange(c) ==
  IF c.type = "update"
    THEN [c EXCEPT !.data =
            [f \in DOMAIN c.data |->
               IF f \in {"dueDate", "completedDate"} /\ IsDate(c.data[f])
                 THEN ToISOString(c.data[f])
                 ELSE c.data[f]]]
    ELSE c

\* what the persist middleware holds in localStorage under 'task-storage':
\* partialize(state), which every set() writes
Storage ==
  [tasks |-> StoredTasks(tasks),
   pendingChanges |-> [j \in DOMAIN pendingChanges |->
                         StoredChange(pendingChanges[j])],
   currentFilter |-> currentFilter,
   cache |-> [k \in FilterKeys |->
                [cache[k] EXCEPT !.tasks = StoredTasks(cache[k].tasks)]]]

\* the page is loaded again: the store is created with its initial state,
\* the middleware merges the stored state into it and calls the function
\* onRehydrateStorage returned, which makes Dates of the tasks' date strings
Rehydrate ==
  /\ tasks' = RehydratedTasks(Storage.tasks)
  /\ pendingChanges' = Storage.pendingChanges
  /\ currentFilter' = Storage.currentFilter
  /\ cache' = [k \in FilterKeys |->
                 [Storage.cache[k]
                    EXCEPT !.tasks = RehydratedTasks(Storage.cache[k].tasks)]]
  /\ selectedTaskId' = NoId
  /\ procs' = [p \in 1..MaxProcs |-> Idle]
  /\ isSyncing' = FALSE
  /\ ev' = EnvEvent("rehydrate")
  /\ UNCHANGED <<cacheDuration, online, now, remote, nextRec, opCount,
                 drainCount, applied, deletedOffline>>

\* a disconnected session in which the page can be loaded again
NextPersist ==
  \/ Rehydrate
  \/ SetSelectedTaskId
  \/ RefreshTasks
  \/ HandleFilterChange
  \/ UpdateTask
  \/ UpdateTaskStatus
  \/ DelayTask
  \/ DeleteTask

SpecPersist == InitCache /\ [][NextPersist]_vars

\* a session that starts disconnected, in which the page can be loaded again
\* before the connection comes back and the queue is drained
NextRestart ==
  \/ Rehydrate
  \/ HandleOffline
  \/ HandleOnline
  \/ UpdateTaskStatus
  \/ DelayTask
  \/ ResumeCall
  \/ ResumeLoad
  \/ ResumeDrain

SpecRestart == InitCache /\ [][NextRestart]_vars

\* ------------------------------------------------------- a large table
\* the most records the table holds
MaxRecords == 27
\* a table of n tasks to do, all due on the day of instant 0
ManyRecords(n) ==
  { [id |-> RecId(j), title |-> "A", status |-> "To do", dueDate |-> 0,
     completedDate |-> NoDate, isRepeating |-> FALSE, repeatEveryDays |-> 0] :
    j \in 1..n }

\* the store of a connected session after TaskList's mount refresh of a
\* table
InitOn(table) ==
  /\ remote = table
  /\ nextRec = Cardinality(table) + 1
  /\ tasks = LoadTasks(table, "today", 0)
  /\ cache = [k \in FilterKeys |->
                IF k = "today"
                  THEN CacheEntry(LoadTasks(table, "today", 0), 0)
                  ELSE NoEntry]
  /\ selectedTaskId = NoId
  /\ pendingChanges = <<>>
  /\ currentFilter = "today"
  /\ cacheDuration = "12h"
  /\ online = TRUE
  /\ now = 0
  /\ procs = [p \in 1..MaxProcs |-> Idle]
  /\ isSyncing = FALSE
  /\ opCount = 0
  /\ drainCount = 0
  /\ applied = [s \in 1..MaxOps |-> 0]
  /\ deletedOffline = {}
  /\ ev = EnvEvent("init")

\* a table of about a page of records
InitPages == \E n \in (PageSize - 1)..MaxRecords : InitOn(ManyRecords(n))

\* a session that only reads the table
NextPages ==
  \/ HandleOffline
  \/ HandleOnline
  \/ RefreshTasks
  \/ HandleFilterChange
  \/ ResumeLoad

SpecPages == InitPages /\ [][NextPages]_vars

\* ------------------------------------------------------- the cache's keys
\* the lists setTasks is called with
SetTasksInputs ==
  LET all == LoadTasks(InitialRemote, "all", 0)
  IN {SubSeq(all, 1, n) : n \in 0..Len(all)}

\* setTasks(list, filterType)
SetTasks ==
  \E list \in SetTasksInputs, filterType \in FilterKeys :
    /\ CanStart
    /\ opCount' = opCount + 1
    /\ ReadClock
    /\ tasks' = list
    /\ cache' = [cache EXCEPT ![filterType] = CacheEntry(list, now')]
    /\ ev' = [EnvEvent("setTasks") EXCEPT !.filter = filterType,
                                          !.outcome = "ok"]
    /\ UNCHANGED <<selectedTaskId, pendingChanges, currentFilter,
                   cacheDuration, online, remote, nextRec, procs, isSyncing,
                   drainCount, applied, deletedOffline>>

\* a session of reads in which the list of a filter is also set directly
NextKeys ==
  \/ HandleOffline
  \/ HandleOnline
  \/ SetTasks
  \/ CallGetCachedTasks
  \/ RefreshTasks
  \/ HandleFilterChange
  \/ ResumeLoad

SpecKeys == Init /\ [][NextKeys]_vars

\* ------------------------------------------------- the filters' windows
\* the most days a record's date is away from the day of instant 0
MaxAway == 3
\* a table with a task to do and a task done for every day around the day
\* of instant 0
WindowRecords ==
  { [id |-> RecId(d + MaxAway + 1), title |-> "A", status |-> "To do",
     dueDate |-> d * DayTicks, completedDate |-> NoDate,
     isRepeating |-> FALSE, repeatEveryDays |-> 0] : d \in -MaxAway..MaxAway }
  \cup
  { [id |-> RecId(d + 3 * MaxAway + 2), title |-> "A", status |-> "Done",
     dueDate |-> d * DayTicks, completedDate |-> d * DayTicks,
     isRepeating |-> FALSE, repeatEveryDays |-> 0] : d \in -MaxAway..MaxAway }

InitWindow == InitOn(WindowRecords)

SpecWindow == InitWindow /\ [][NextPages]_vars

\* ------------------------------------------------------------------ claims
Mutations == {"updateTask", "updateTaskStatus", "delayTask", "deleteTask"}
Serials(queue) == {queue[j].serial : j \in DOMAIN queue}
Position(queue, serial) == CHOOSE j \in DOMAIN queue : queue[j].serial = serial
Draining(p) == procs[p].pc = "drain"

\* C1: while a run of syncPendingChanges is suspended at the remote call for
\* a change, every change of the queue the run started from that has a
\* smaller timestamp comes before it in the order of replay (its call was
\* issued earlier) and every change with a larger timestamp comes after it
\* (its call is issued later) - whichever tasks the changes are for.
C1_ReplayInTimestampOrder ==
  \A p \in 1..MaxProcs :
    Draining(p) =>
      LET pr == procs[p] IN
      /\ Serials(pr.changes) = Serials(pr.statePending)
      /\ Len(pr.changes) = Len(pr.statePending)
      /\ \A j \in DOMAIN pr.changes :
           /\ pr.changes[j].timestamp < pr.changes[pr.i].timestamp => j < pr.i
           /\ pr.changes[j].timestamp > pr.changes[pr.i].timestamp => j > pr.i

\* a run is at its second remote call, for a queue that was held with the
\* later change first
C1_Witness ==
  \E p \in 1..MaxProcs :
    /\ Draining(p)
    /\ procs[p].i = 2
    /\ Len(procs[p].statePending) = 2
    /\ procs[p].statePending[1].timestamp > procs[p].statePending[2].timestamp
    /\ ev.op = "handleOnline" /\ ev.done # "none"

\* C2: at most one run of syncPendingChanges is in progress at a time, and
\* no pending change is applied to the remote table more than once.
C2_DrainNotReentrant ==
  /\ Cardinality({p \in 1..MaxProcs : procs[p].op = "handleOnline"}) <= 1
  /\ \A s \in 1..MaxOps : applied[s] <= 1

\* C3: a change that leaves pendingChanges in a step has been replayed
\* against the remote table successfully.
C3_RemovedOnlyAfterSuccess ==
  [][\A s \in Serials(pendingChanges) \ Serials(pendingChanges') :
       applied'[s] >= 1]_vars

\* C4: when a run of syncPendingChanges ends, the changes it failed to replay
\* are in pendingChanges, and the changes pendingChanges holds are in the
\* relative order they had in the queue the run started from.
C4_FailedKeptInOrder ==
  [][\A p \in 1..MaxProcs :
       Draining(p) /\ procs'[p].pc # "drain" =>
         LET before == procs[p].statePending
             kept == pendingChanges'
         IN /\ (~ev'.ok => ev'.serial \in Serials(kept))
            /\ Serials(procs[p].failedChanges) \subseteq Serials(kept)
            /\ \A j, k \in DOMAIN kept :
                 j < k => Position(before, kept[j].serial)
                            < Position(before, kept[k].serial)]_vars

\* C5: updateTask, updateTaskStatus, delayTask or deleteTask called while
\* offline for a task of the list returns without error, leaves the list with
\* the task patched (or without the task), and leaves the queue as it was
\* with exactly one change for that task added at its end: an update with
\* the changed fields, or a delete.
C5_OfflineMutationQueued ==
  [][~online /\ opCount' = opCount + 1 /\ ev'.op \in Mutations =>
       LET id == ev'.id
           last == pendingChanges'[Len(pendingChanges')]
       IN /\ ev'.outcome = "ok"
          /\ Len(pendingChanges') = Len(pendingChanges) + 1
          /\ SubSeq(pendingChanges', 1, Len(pendingChanges)) = pendingChanges
          /\ last.taskId = id
          /\ RemoveTask(tasks', id) = RemoveTask(tasks, id)
          /\ IF ev'.op = "deleteTask"
               THEN last.type = "delete" /\ ~HasTask(tasks', id)
               ELSE /\ last.type = "update"
                    /\ Len(tasks') = Len(tasks)
                    /\ \A j \in DOMAIN tasks :
                         tasks[j].id = id =>
                           tasks'[j] = Merge(FindTask(tasks, id), last.data)
                    /\ \A f \in DOMAIN FindTask(tasks, id) :
                         FindTask(tasks', id)[f] # FindTask(tasks, id)[f]
                           => f \in DOMAIN last.data]_vars

\* an offline mutation has just been queued behind an earlier change
C5_Witness ==
  /\ ~online
  /\ ev.op \in Mutations
  /\ ev.outcome = "ok"
  /\ Len(pendingChanges) = 2
  /\ pendingChanges[2].taskId = ev.id
  /\ pendingChanges[1].serial # pendingChanges[2].serial

\* C6: when the remote call of a mutation that was requested while online
\* fails, the mutation ends with an error and pendingChanges stays as it was.
C6_OnlineFailurePropagates ==
  [][\A p \in 1..MaxProcs :
       /\ procs[p].pc = "call"
       /\ procs[p].startedOnline
       /\ procs'[p] = Idle
       /\ ~ev'.ok
       => ev'.outcome = "error" /\ pendingChanges' = pendingChanges]_vars

\* C7: handleOnline issues the fetch of the list only when its run of
\* syncPendingChanges has been through every queued change, and it never
\* returns without a fetch of the list having succeeded, whatever the queue
\* held.
C7_DrainThenFetch ==
  /\ \A p \in 1..MaxProcs :
       procs[p].op = "handleOnline" /\ procs[p].pc = "load" =>
         procs[p].i > Len(procs[p].changes)
  /\ ev.op = "handleOnline" /\ ev.outcome = "ok" =>
       ev.done = "list" /\ ev.ok

\* the ids the store refers to
LocalIds ==
  Ids(tasks) \cup {selectedTaskId} \cup
  {pendingChanges[j].taskId : j \in DOMAIN pendingChanges} \cup
  UNION {Ids(cache[k].tasks) : k \in {f \in FilterKeys : cache[f].present}}

\* C8: no remote update is called for a temporary id, and when handleOnline
\* has returned nothing in the store refers to a temporary id.
C8_TempIdNeverUpdated ==
  /\ ~(ev.done = "update" /\ IsTemp(ev.rid))
  /\ ev.op = "handleOnline" /\ ev.outcome = "ok" =>
       \A id \in LocalIds : ~IsTemp(id)

\* C9: deleteTask(t1) while offline leaves a delete change for t1 at the end
\* of the queue, and from then on t1 is never in the visible list.
C9_OfflineDeleteStaysDeleted ==
  /\ \A id \in deletedOffline : ~HasTask(tasks, id)
  /\ ~online /\ ev.op = "deleteTask" /\ ev.outcome = "ok" =>
       /\ pendingChanges # <<>>
       /\ pendingChanges[Len(pendingChanges)].type = "delete"
       /\ pendingChanges[Len(pendingChanges)].taskId = ev.id

\* C10: when deleteTask(id) has returned, no cache entry holds a task with
\* that id and selectedTaskId is not that id.
C10_DeletePurgesCache ==
  ev.op = "deleteTask" /\ ev.outcome = "ok" =>
    /\ \A k \in FilterKeys : cache[k].present => ~HasTask(cache[k].tasks, ev.id)
    /\ selectedTaskId # ev.id

\* C11: no two tasks of the visible list have the same id.
C11_UniqueIds ==
  \A j, k \in DOMAIN tasks : j # k => tasks[j].id # tasks[k].id

\* C12: getCachedTasks(key) returns the stored snapshot exactly when the key
\* has an entry whose age, now - timestamp, is strictly less than the
\* configured duration (any age when the duration is unbounded), and returns
\* nothing otherwise.
C12_FreshIffYoungerThanTtl ==
  ev.op = "getCachedTasks" =>
    LET entry == cache[ev.filter]
        fresh == /\ entry.present
                 /\ \/ cacheDuration = "infinite"
                    \/ now - entry.timestamp < CacheDuration(cacheDuration)
    IN /\ ev.ok <=> fresh
       /\ ev.result = IF fresh THEN entry.tasks ELSE <<>>

\* C13: the snapshot stored for a filter key changes only when a refresh for
\* that key succeeds: an online refresh stores exactly the list it fetched,
\* an offline refresh keeps the stored list (it only stamps the entry again),
\* and no other step - no mutation, online or offline - touches the entry.
\* So getCachedTasks(k) returns the list the last online refresh for k
\* fetched for as long as the entry is not expired.
C13_SnapshotStable ==
  [][\A k \in FilterKeys :
       cache'[k] # cache[k] =>
         /\ ev'.filter = k
         /\ ev'.outcome = "ok"
         /\ cache'[k].present
         /\ IF ev'.done = "list" /\ ev'.ok
              THEN \E p \in 1..MaxProcs :
                     /\ procs[p].pc = "load"
                     /\ procs'[p] = Idle
                     /\ cache'[k].tasks =
                          LoadTasks(remote, k, procs[p].today)
              ELSE /\ ~online
                   /\ cache[k].present
                   /\ cache'[k].tasks = cache[k].tasks]_vars

\* after an online refresh for 'all' an offline mutation changed the visible
\* list and the stored snapshot is still the fetched list
C13_Witness ==
  /\ ~online
  /\ ev.op \in Mutations
  /\ ev.outcome = "ok"
  /\ currentFilter = "all"
  /\ cache["all"].present
  /\ cache["all"].tasks = LoadTasks(remote, "all", 0)
  /\ cache["all"].tasks # tasks

\* a step in which a refreshTasks call ends by throwing: offline without a
\* usable cache entry, or at a loadTasks that failed
RefreshFailed == ev'.cause = NoCacheError \/ (ev'.done = "list" /\ ~ev'.ok)
\* a step in which a refreshTasks call returns
RefreshSucceeded == ev'.filter # "none" /\ ev'.outcome = "ok" /\ ~RefreshFailed

\* C14: a refreshTasks call that succeeds replaces the visible list and the
\* cache entry of its filter key in one step by the same whole list (the
\* fetched list online, the stored snapshot offline) and leaves the other
\* entries alone; one that fails leaves the visible list and every cache
\* entry as they were (when the caller is addTask, its own catch block then
\* appends the temporary task to the list).
C14_RefreshAllOrNothing ==
  [][/\ RefreshSucceeded =>
          LET k == ev'.filter IN
          /\ cache'[k].present
          /\ tasks' = cache'[k].tasks
          /\ \A o \in FilterKeys \ {k} : cache'[o] = cache[o]
          /\ IF ev'.done = "list"
               THEN \E p \in 1..MaxProcs :
                      /\ procs[p].pc = "load"
                      /\ procs'[p] = Idle
                      /\ tasks' = LoadTasks(remote, k, procs[p].today)
               ELSE tasks' = cache[k].tasks
     /\ RefreshFailed =>
          /\ cache' = cache
          /\ IF ev'.op = "addTask" /\ ev'.outcome = "ok"
               THEN /\ Len(tasks') = Len(tasks) + 1
                    /\ SubSeq(tasks', 1, Len(tasks)) = tasks
                    /\ tasks'[Len(tasks')].id = ev'.id
               ELSE tasks' = tasks]_vars

\* an offline refresh has just served the snapshot over a visible list that an
\* offline mutation had changed
C14_Witness ==
  /\ ~online
  /\ ev.op = "refreshTasks"
  /\ ev.outcome = "ok"
  /\ ev.filter = "today"
  /\ pendingChanges # <<>>
  /\ tasks = cache["today"].tasks

\* C15: refreshTasks called while offline throws for want of a cache entry
\* only when the key has no entry that getCachedTasks returns, and what the
\* caller gets then differs from what it gets for every other error of the
\* store.
C15_NoCacheDistinct ==
  /\ ev.cause = NoCacheError => ~online /\ ~CacheHit(ev.filter, now)
  /\ ev.outcome = "error" /\ ev.cause # NoCacheError =>
       ev.message # HandleStoreError(NoCacheError, FALSE)

\* C16: when the remote call of a mutation requested online has returned,
\* refreshTasks is entered for the active filter, and when its loadTasks has
\* returned the visible list and the cache entry of the active filter are the
\* list fetched from the table.
C16_OnlineMutationRefetches ==
  [][\A p \in 1..MaxProcs :
       procs[p].op \in Mutations \cup {"addTask"} /\ ev'.ok =>
         /\ procs[p].pc = "call" /\ procs'[p] # procs[p] =>
              /\ procs'[p].pc = "load"
              /\ procs'[p].filter = currentFilter
         /\ procs[p].pc = "load" /\ procs'[p] = Idle =>
              /\ tasks' = LoadTasks(remote, currentFilter, procs[p].today)
              /\ cache'[currentFilter] = CacheEntry(tasks', now')]_vars

\* C17: when addTask was called offline and its createTask fails with the
\* client still offline, addTask returns a temporary id, the visible list is
\* the old list with one task of that id (the new record) added, and the
\* queue is the old queue with one update change for that id added whose data
\* is the whole new record.
C17_OfflineAddQueued ==
  [][\A p \in 1..MaxProcs :
       /\ procs[p].op = "addTask"
       /\ procs[p].pc = "call"
       /\ ~procs[p].startedOnline
       /\ ~online
       /\ procs'[p] = Idle
       => /\ ev'.outcome = "ok"
          /\ IsTemp(ev'.id)
          /\ tasks' = Append(tasks, Merge(procs[p].task, [id |-> ev'.id]))
          /\ Len(pendingChanges') = Len(pendingChanges) + 1
          /\ SubSeq(pendingChanges', 1, Len(pendingChanges)) = pendingChanges
          /\ LET last == pendingChanges'[Len(pendingChanges')]
             IN /\ last.taskId = ev'.id
                /\ last.type = "update"
                /\ last.data = procs[p].task]_vars

\* an addTask of a session that stayed offline has queued its task behind an
\* earlier offline change
C17_Witness ==
  /\ ~online
  /\ drainCount = 0
  /\ ev.op = "addTask"
  /\ ev.outcome = "ok"
  /\ IsTemp(ev.id)
  /\ Len(pendingChanges) = 2
  /\ pendingChanges[1].serial = 1
  /\ pendingChanges[2].taskId = ev.id
  /\ HasTask(tasks, ev.id)

\* a step in which `op` is called
Called(op) == ev'.op = op /\ opCount' = opCount + 1
\* the task a mutation called in this step results in: online the task given
\* to syncTask, offline the task of the visible list
ResultTask ==
  IF online
    THEN LET p == CHOOSE q \in 1..MaxProcs : procs'[q] # procs[q]
         IN procs'[p].task
    ELSE FindTask(tasks', ev'.id)
\* the data of the change a mutation called offline in this step has queued
QueuedData == pendingChanges'[Len(pendingChanges')].data

C19_NonRepeatingCompleted ==
  [][Called("updateTaskStatus") /\ ~FindTask(tasks, ev'.id).isRepeating =>
       LET task == FindTask(tasks, ev'.id) IN
       /\ ResultTask =
            [task EXCEPT !.status = "Done", !.completedDate = now']
       /\ ~online =>
            QueuedData = [status |-> "Done", completedDate |-> now']]_vars

\* the task rec1, not repeating, has just been completed offline at instant 1
C19_Witness ==
  /\ ~online
  /\ ev.op = "updateTaskStatus"
  /\ ev.id = RecId(1)
  /\ now = 1
  /\ ~FindTask(tasks, RecId(1)).isRepeating
  /\ FindTask(tasks, RecId(1)).status = "Done"
  /\ FindTask(tasks, RecId(1)).completedDate = 1
  /\ pendingChanges[Len(pendingChanges)].taskId = RecId(1)

\* the due date the table holds for `id` when the session starts
InitialDue(id) == RemoteGet(InitialRemote, id).dueDate
\* the queue holds one change, a delay of `id`, and no call is in flight
DelayedOnce(id) ==
  /\ opCount = 1 /\ drainCount = 0
  /\ \A p \in 1..MaxProcs : procs[p] = Idle
  /\ Len(pendingChanges) = 1
  /\ pendingChanges[1].taskId = id
  /\ DOMAIN pendingChanges[1].data = {"dueDate"}

\* C20: delayTask(id, n) results in the task with dueDate = its dueDate + n
\* days and every other field as it was (offline the queued data are that
\* dueDate); a second offline delay of a task, after a first one by n1, by n2
\* leaves it at its original dueDate + n1 + n2 days.
C20_DelayFromDueDate ==
  [][/\ Called("delayTask") =>
          \E n \in DelayInputs :
            LET task == FindTask(tasks, ev'.id)
                due == AddDays(task.dueDate, n)
            IN /\ ResultTask = [task EXCEPT !.dueDate = due]
               /\ ~online => QueuedData = [dueDate |-> due]
     /\ Called("delayTask") /\ ~online /\ DelayedOnce(ev'.id) =>
          \E n1, n2 \in DelayInputs :
            LET due == AddDays(AddDays(InitialDue(ev'.id), n1), n2)
            IN /\ FindTask(tasks', ev'.id).dueDate = due
               /\ QueuedData = [dueDate |-> due]]_vars

\* the task rec2 has been delayed twice offline, at instant 0, and stands two
\* days after its original due date
C20_Witness ==
  /\ ~online
  /\ now = 0
  /\ ev.op = "delayTask"
  /\ ev.id = RecId(2)
  /\ opCount = 2 /\ drainCount = 0
  /\ Len(pendingChanges) = 2
  /\ pendingChanges[1].data = [dueDate |-> AddDays(InitialDue(RecId(2)), 1)]
  /\ pendingChanges[2].data = [dueDate |-> AddDays(InitialDue(RecId(2)), 2)]
  /\ FindTask(tasks, RecId(2)).dueDate = AddDays(InitialDue(RecId(2)), 2)

\* C21: loading the page again (the stored state is put back into the store)
\* leaves every task of the visible list and of every cache snapshot with
\* the dueDate and the completedDate it had, to the instant, and leaves the
\* active filter and every cache timestamp as they were.
C21_DatesRoundTrip ==
  [][ev'.op = "rehydrate" =>
       /\ tasks' = tasks
       /\ cache' = cache
       /\ currentFilter' = currentFilter]_vars

\* the page has just been loaded again with a list that holds a due date and
\* a completion date that are not at the start of a day, and a snapshot
\* stamped at an instant other than 0
C21_Witness ==
  /\ ev.op = "rehydrate"
  /\ \E j \in DOMAIN tasks : tasks[j].dueDate % DayTicks # 0
  /\ \E j \in DOMAIN tasks :
       tasks[j].completedDate # NoDate /\ tasks[j].completedDate % DayTicks # 0
  /\ cache["today"].timestamp = 1
  /\ cache["today"].tasks # <<>>

\* C22: when a run of syncPendingChanges ends, every change that was queued
\* while the run was in progress (it is in pendingChanges and was not in the
\* queue the run started from) is still in pendingChanges.
C22_DrainKeepsNewChanges ==
  [][\A p \in 1..MaxProcs :
       Draining(p) /\ procs'[p].pc # "drain" =>
         \A s \in Serials(pendingChanges) \ Serials(procs[p].statePending) :
           s \in Serials(pendingChanges')]_vars

\* C23: when connectivity keeps coming back, every call of a run is made by
\* a connected client and the table accepts every call for a record it
\* holds, the queue is empty from some run on: no change is replayed for ever.
C23_QueueEventuallyEmpty == <>[](pendingChanges = <<>>)

\* C24: the timestamp of a cache entry changes only in a step in which a
\* fetch of the list for its key returns; a refreshTasks call of a
\* disconnected client, which serves the snapshot, leaves it as it is.
C24_StampOnlyOnFetch ==
  [][\A k \in FilterKeys :
       cache'[k].timestamp # cache[k].timestamp =>
         ev'.done = "list" /\ ev'.ok /\ ev'.filter = k]_vars

\* C25: an addTask call whose remote create has succeeded never ends with a
\* temporary copy of the task beside the durable one in the list, and never
\* queues a change, whatever happens to the refresh that follows the create.
C25_AddTaskAddsOnce ==
  [][\A p \in 1..MaxProcs :
       procs[p].op = "addTask" /\ procs[p].pc = "load" /\ procs'[p] = Idle =>
         /\ pendingChanges' = pendingChanges
         /\ ~IsTemp(ev'.id)
         /\ \A id \in Ids(tasks') \ Ids(tasks) : ~IsTemp(id)]_vars

\* C26: a refreshTasks call that serves the snapshot to a disconnected client
\* does not undo what a pending change shows in the list: a task a pending
\* delete has removed stays out of the list, and a field that shows the value
\* of a pending update keeps it (when the task is in the list served).
C26_OptimisticChangeStaysVisible ==
  [][~online /\ ev'.filter # "none" /\ ev'.outcome = "ok" =>
       \A j \in DOMAIN pendingChanges :
         LET c == pendingChanges[j]
             id == c.taskId
         IN IF c.type = "delete"
              THEN ~HasTask(tasks, id) => ~HasTask(tasks', id)
              ELSE HasTask(tasks, id) /\ HasTask(tasks', id) =>
                     \A f \in DOMAIN c.data :
                       FindTask(tasks, id)[f] = c.data[f] =>
                         FindTask(tasks', id)[f] = c.data[f]]_vars

\* the fields of a record of the table
RecordFields ==
  {"title", "status", "dueDate", "completedDate", "isRepeating",
   "repeatEveryDays"}

\* C27: the replay of a queued update changes, on the record of the table,
\* only fields that the data of the change hold: every other field of the
\* record keeps the value the table held when the change was replayed.
C27_ReplayTouchesPayloadOnly ==
  [][\A p \in 1..MaxProcs :
       /\ Draining(p)
       /\ procs'[p] # procs[p]
       /\ ev'.done = "update" /\ ev'.ok
       => LET c == procs[p].changes[procs[p].i] IN
          \A f \in RecordFields \ DOMAIN c.data :
            RemoteGet(remote', c.taskId)[f] = RemoteGet(remote, c.taskId)[f]]_vars

\* the value the table holds for field f when it is sent v: a date field
\* holds the day
Held(f, v) == IF f \in {"dueDate", "completedDate"} THEN DayStart(v) ELSE v

\* C28: when a run that started from a queue of two updates of one task, A
\* enqueued before B, has replayed both with success, the record of the table
\* has B's value for every field B holds and A's value for every field only
\* A holds.
C28_LaterUpdateWins ==
  [][\A p \in 1..MaxProcs :
       /\ Draining(p)
       /\ procs'[p].pc # "drain"
       /\ ev'.ok
       /\ procs[p].failedChanges = <<>>
       /\ Len(procs[p].statePending) = 2
       /\ procs[p].statePending[1].type = "update"
       /\ procs[p].statePending[2].type = "update"
       /\ procs[p].statePending[1].taskId = procs[p].statePending[2].taskId
       /\ HasTask(procs[p].stateTasks, procs[p].statePending[1].taskId)
       => LET A == procs[p].statePending[1]
              B == procs[p].statePending[2]
              rec == RemoteGet(remote', A.taskId)
          IN /\ \A f \in DOMAIN B.data : rec[f] = Held(f, B.data[f])
             /\ \A f \in DOMAIN A.data \ DOMAIN B.data :
                  rec[f] = Held(f, A.data[f])]_vars

\* C29: the list of a loadTasks call is not stored, in the cache or in the
\* visible list, once the list of a loadTasks call that was made later for
\* the same filter has been stored.
C29_LastRequestWins ==
  [][\A p \in 1..MaxProcs :
       /\ procs[p].pc = "load"
       /\ procs'[p] = Idle
       /\ ev'.done = "list" /\ ev'.ok
       => ~procs[p].stale]_vars

\* C30: the timestamp a change gets when it is enqueued is greater than the
\* timestamp of every change enqueued before it (and still in the queue),
\* whatever the wall clock reads.
C30_TimestampsIncrease ==
  [][/\ ev'.op \in Mutations \cup {"addTask"}
     /\ ev'.outcome = "ok"
     /\ Len(pendingChanges') = Len(pendingChanges) + 1
     /\ SubSeq(pendingChanges', 1, Len(pendingChanges)) = pendingChanges
     => \A j \in DOMAIN pendingChanges :
          pendingChanges[j].timestamp
            < pendingChanges'[Len(pendingChanges')].timestamp]_vars

\* a step in which refreshTasks is called by a disconnected client
OfflineRefresh == ~online /\ ev'.op = "refreshTasks" /\ ev'.filter # "none"
\* the step serves the snapshot stored for the filter of the call
Served ==
  /\ ev'.outcome = "ok"
  /\ tasks' = cache[ev'.filter].tasks
\* the step ends with 'No cached data available offline'
Unavailable ==
  /\ ev'.outcome = "error"
  /\ ev'.cause = NoCacheError
  /\ tasks' = tasks

\* C31 as stated: refreshTasks called by a disconnected client serves the
\* snapshot of the filter whenever there is one, whatever its age, and is
\* unavailable only when the filter has no snapshot at all.
C31_ServedWhateverAge ==
  [][OfflineRefresh =>
       IF cache[ev'.filter].present THEN Served ELSE Unavailable]_vars

\* C31 as amended: refreshTasks called by a disconnected client serves the
\* snapshot of the filter when there is one and its age, the clock reading
\* less the entry's timestamp, is not above the configured duration (any age
\* when the duration is unbounded); it is unavailable when the filter has no
\* snapshot or the snapshot is older than that.
C31_ServedWhileNotExpired ==
  [][OfflineRefresh =>
       LET entry == cache[ev'.filter]
           ttl == CASE cacheDuration = "5min" -> 1
                    [] cacheDuration = "12h" -> 144
                    [] OTHER -> 6
       IN IF /\ entry.present
             /\ \/ cacheDuration = "infinite"
                \/ now' - entry.timestamp <= ttl
            THEN Served
            ELSE Unavailable]_vars

\* a disconnected client has just been refused the 'today' list although a
\* snapshot is stored for it: the snapshot is older than the five minutes
\* configured
C31_Witness ==
  /\ ~online
  /\ cacheDuration = "5min"
  /\ ev.op = "refreshTasks"
  /\ ev.filter = "today"
  /\ ev.cause = NoCacheError
  /\ cache["today"].present
  /\ now - cache["today"].timestamp > 1

\* C32: every task of the visible list that has a completedDate is not
\* repeating and is in status Done.
C32_CompletedMeansDone ==
  \A j \in DOMAIN tasks :
    tasks[j].completedDate # NoDate =>
      ~tasks[j].isRepeating /\ tasks[j].status = "Done"

\* C33: the loadTasks call that follows a mutation's remote call or a run of
\* syncPendingChanges is made for the filter that is active when it is made.
C33_RefreshForActiveFilter ==
  [][\A p \in 1..MaxProcs :
       procs'[p].pc = "load" /\ procs[p].pc \in {"call", "drain"} =>
         procs'[p].filter = currentFilter']_vars


\* C34: a queued update of a task of the list is replayable, before and after
\* the page is loaded again: the dueDate and the completedDate syncTask gets
\* from it are Dates, which the call can format, so that the record gets the
\* instant the change was made with.
C34_QueuedUpdateReplayable ==
  \A j \in DOMAIN pendingChanges :
    pendingChanges[j].type = "update" /\ HasTask(tasks, pendingChanges[j].taskId)
      => Replayable(ReplayTask(pendingChanges[j], tasks))

\* C35: when the loadTasks call of an online refreshTasks(k) returns, the
\* snapshot stored for k holds every record of the table that matches the
\* filter k, however many there are.
C35_SnapshotHoldsEveryMatch ==
  [][\A p \in 1..MaxProcs :
       /\ procs[p].pc = "load"
       /\ procs'[p].pc = "idle"
       /\ ev'.done = "list"
       /\ ev'.ok
       => \A r \in remote :
            MatchesFilter(procs[p].filter, r, procs[p].today)
              => HasTask(cache'[procs[p].filter].tasks, r.id)]_vars

\* C36: when the cache duration is unbounded, getCachedTasks(k) returns the
\* snapshot of an entry k at whatever instant it is called, however long
\* after the entry was stamped.
C36_UnboundedNeverExpires ==
  cacheDuration = "infinite" /\ ev.op = "getCachedTasks"
    /\ cache[ev.filter].present
    => ev.ok /\ ev.result = cache[ev.filter].tasks

C36_Witness ==
  /\ cacheDuration = "infinite"
  /\ ev.op = "getCachedTasks"
  /\ ev.filter = "today"
  /\ now - cache["today"].timestamp > CacheDuration("12h")
  /\ ev.ok
  /\ ev.result = LoadTasks(InitialRemote, "today", 0)
  /\ ev.result # <<>>

\* C37: the cache is kept per filter key: a step of refreshTasks(k) or of
\* setTasks(list, k) changes no entry but that of k, and what
\* getCachedTasks(k) returns on a hit - to a caller, and to the offline
\* refreshTasks(k), which shows it - is the list stored under k.
C37_EntriesPerKey ==
  [][/\ \A k \in FilterKeys :
          cache'[k] # cache[k] =>
            ev'.op \in {"refreshTasks", "setTasks"} /\ ev'.filter = k
     /\ ev'.op = "getCachedTasks" /\ ev'.ok =>
          ev'.result = cache[ev'.filter].tasks
     /\ ev'.op = "refreshTasks" /\ ev'.outcome = "ok" /\ ev'.done = "none" =>
          tasks' = cache[ev'.filter].tasks]_vars

\* getCachedTasks('today') has returned the list stored under 'today' while
\* the entry of the filter on display holds another list
C37_Witness ==
  /\ ev.op = "getCachedTasks"
  /\ ev.filter = "today"
  /\ ev.ok
  /\ currentFilter = "all"
  /\ cache["all"].present
  /\ ev.result = cache["today"].tasks
  /\ ev.result # cache["all"].tasks
  /\ cache["upcoming"] = NoEntry

\* C38: syncPendingChanges called on an empty queue returns at once: the
\* step issues no remote call and suspends nothing, and the list, the cache,
\* the queue, the selection, the active filter and the table are as they
\* were.
C38_EmptyDrainIsNoOp ==
  [][ev'.op = "handleOnline" /\ ev'.done = "none" /\ pendingChanges = <<>>
       => /\ ev'.issued = "none"
          /\ UNCHANGED <<tasks, cache, pendingChanges, selectedTaskId,
                         currentFilter, procs, remote>>]_vars

\* the connection has come back on an empty queue while a task was selected
\* and a snapshot of the filter 'all' was on display
C38_Witness ==
  /\ ev.op = "handleOnline"
  /\ ev.done = "none"
  /\ ev.issued = "none"
  /\ online
  /\ pendingChanges = <<>>
  /\ selectedTaskId # NoId
  /\ currentFilter = "all"
  /\ cache["all"].present
  /\ tasks # <<>>

\* C39: the step in which deleteTask(id) removes the task from the list -
\* at once when offline, when the remote delete has returned when online -
\* clears selectedTaskId if it is id and leaves it as it was if another task
\* is selected.
C39_OtherSelectionKept ==
  [][/\ ev'.op = "deleteTask"
     /\ \/ ev'.done = "none" /\ ev'.outcome = "ok"
        \/ ev'.done = "delete" /\ ev'.ok
     => selectedTaskId' =
          IF selectedTaskId = ev'.id THEN NoId ELSE selectedTaskId]_vars

\* the loadTasks call of p for the filter 'today' returns in this step
LoadedToday(p) ==
  /\ procs[p].pc = "load"
  /\ procs'[p].pc = "idle"
  /\ procs[p].filter = "today"
  /\ ev'.done = "list"
  /\ ev'.ok
\* the days from the day of the call to the due day of record r
DaysAway(r, p) == (r.dueDate \div DayTicks) - (procs[p].today \div DayTicks)

\* C40: the list loaded for the filter 'today' holds a record of the table
\* iff its status is not Done and its due day is at most 2 days before or
\* after the day of the call, the days exactly 2 days away included.
C40_TodayWithinTwoDays ==
  [][\A p \in 1..MaxProcs :
       LoadedToday(p) =>
         \A r \in remote :
           HasTask(tasks', r.id) <=>
             r.status # "Done" /\ DaysAway(r, p) \in -2..2]_vars

\* C40, amended: the list loaded for the filter 'today' holds a record of
\* the table iff its status is not Done and its due day is later than the
\* day 2 days before the day of the call and earlier than the day 2 days
\* after it: the day before, the day itself and the day after.
C40_TodayStrictlyWithinTwoDays ==
  [][\A p \in 1..MaxProcs :
       LoadedToday(p) =>
         \A r \in remote :
           HasTask(tasks', r.id) <=>
             r.status # "Done" /\ DaysAway(r, p) \in -1..1]_vars

\* a 'today' list has been loaded from a table that holds tasks to do of the
\* days 2 days before and 2 days after: it holds those of the day before
\* and of the day after, and neither of the former
C40_Witness ==
  /\ ev.done = "list"
  /\ ev.ok
  /\ ev.filter = "today"
  /\ \E r \in remote : r.status = "To do" /\ r.dueDate = AddDays(0, -2)
                        /\ ~HasTask(tasks, r.id)
  /\ \E r \in remote : r.status = "To do" /\ r.dueDate = AddDays(0, 2)
                        /\ ~HasTask(tasks, r.id)
  /\ \E r \in remote : r.status = "To do" /\ r.dueDate = AddDays(0, -1)
                        /\ HasTask(tasks, r.id)
  /\ \E r \in remote : r.status = "To do" /\ r.dueDate = AddDays(0, 1)
                        /\ HasTask(tasks, r.id)
  /\ Len(tasks) = 3
====
